---- MODULE Spec2Model ----
(***************************************************************************)
(* Model of the reach-task trial sequencer (reach/session.py) and of the   *)
(* hardware layer it drives (reach/raspberry.py).                          *)
(*                                                                         *)
(* Three flows of control are interleaved:                                 *)
(*   - the primary thread, which executes Session.run (variable pc);       *)
(*   - the SIGINT handlers, which Python runs on the primary thread        *)
(*     between two of its statements (variable stack: the handler frames   *)
(*     on top of the interrupted code);                                    *)
(*   - the RPi.GPIO event thread, which executes the callback registered   *)
(*     on a pin when an edge is detected on it (variable cb).              *)
(*                                                                         *)
(* Time is a logical clock (now) advanced by the sleeps of the primary     *)
(* thread; every time.time() call reads it.                                *)
(*                                                                         *)
(* RPi.GPIO itself is a library: it is modelled by its documented          *)
(* behaviour (GPIO.cleanup() returns every channel to an unconfigured      *)
(* input and removes every event detection; GPIO.output, GPIO.input,       *)
(* add_event_detect and remove_event_detect raise RuntimeError on a        *)
(* channel that is not set up; add_event_detect raises when the channel    *)
(* already has an event detection).                                        *)
(***************************************************************************)
EXTENDS Integers, Sequences, FiniteSets, TLC

\* ---------------------------------------------------------------- bounds
\* Number of inputs the environment produces in one run: sensor edges, button
\* presses and SIGINTs together.
MaxInputs == 2
\* data['duration'], in clock ticks.
Duration == 3
\* data['cue_duration_ms'], in clock ticks.
CueTicks == 1
\* data['iti'][0], in clock ticks.
ItiMin == 1
\* data['iti'][1]
ItiMax == ItiMin + 1
\* data['reward_duration_ms'], in clock ticks.
RewardTicks == 1

\* ------------------------------------------------------- pin table
button_pins == <<4, 13>>
paw_pins == <<17, 18>>
touch_pins == <<27, 23>>

Backends == {"real", "mock"}
SpoutCounts == {1, 2}

\* list.index(x) and list[i] of Python, 0-based, on a TLA+ sequence.
PyIndex(seq, x) == (CHOOSE i \in 1..Len(seq) : seq[i] = x) - 1
PyAt(seq, i) == seq[i + 1]

DetectPins == {PyAt(button_pins, 0)} \cup {paw_pins[i] : i \in 1..2}
                \cup {touch_pins[i] : i \in 1..2}

VARIABLES
    \* configuration (data.update(config)) and the backend class bound to _RPi
    backend, spout_count, shaping, iti,
    \* primary thread
    pc, stack, sigint_handler,
    \* Session attributes
    outcome, iti_broken, current_spout, water_at_cue_onset, reward_count,
    trial_count, trial_end, cue_end,
    \* Session.data
    start_time, end_time, resets_timepoints, spont_reach_timepoints,
    spont_reach_spouts, record,
    \* RPiReal attributes and the GPIO library state
    cue_timepoints, touch_timepoints, lift_timepoints,
    gpio_ok, cue, solenoid, event_detect, bounce,
    \* environment: clock, number of inputs produced
    now, inputs,
    \* GPIO event thread
    cb,
    \* RPiCurses attributes and the curses input queue: the listener threads
    \* that are alive (the last one started is self._monitor), self._monitoring,
    \* the characters getkey will return
    monitor, monitoring, keys,
    \* history of the run (observations, not program state)
    hist

config_vars == <<backend, spout_count, shaping, iti>>
main_vars == <<pc, stack, sigint_handler>>
session_vars == <<outcome, iti_broken, current_spout, water_at_cue_onset,
                  reward_count, trial_count, trial_end, cue_end>>
data_vars == <<start_time, end_time, resets_timepoints,
               spont_reach_timepoints, spont_reach_spouts, record>>
rpi_vars == <<cue_timepoints, touch_timepoints, lift_timepoints>>
gpio_vars == <<gpio_ok, cue, solenoid, event_detect, bounce>>
env_vars == <<now, inputs>>
curses_vars == <<monitor, monitoring, keys>>

vars == <<config_vars, main_vars, session_vars, data_vars, rpi_vars,
          gpio_vars, env_vars, cb, curses_vars, hist>>

\* Indices of RPiReal.spouts, the slice _PIN_NUMBERS['spouts'][:spout_count] of
\* a table of two spouts
Spouts == 0..((IF spout_count < 2 THEN spout_count ELSE 2) - 1)
\* random.randint(0, data['spout_count'] - 1)
SpoutDraws == 0..(spout_count - 1)
\* random.uniform(a, b) is a + (b - a) * random(): a value between the two,
\* whichever is the larger
Uniform(a, b) == IF a <= b THEN a..b ELSE b..a
Idle == [fn |-> "none", pc |-> 0, spout |-> 0]
NoDetect == [p \in DetectPins |-> "none"]
AllOff == [s \in 0..1 |-> FALSE]
Unformatted(t) == [fmt |-> FALSE, t |-> t]
\* time.strftime('%H:%M:%S', time.localtime(t)): a string, no longer a number
Strftime(t) == [fmt |-> TRUE, t |-> t]

Real == backend = "real"
\* RPiCurses (curses.py 77), the backend with a terminal interface
Curses == backend = "curses"

InitHist ==
    [cleanup_calls |-> 0, cleanup_returns |-> 0, cleanup_raised |-> FALSE,
     collate_calls |-> 0, abort_done |-> FALSE,
     start_trial_calls |-> 0, end_trial_calls |-> 0,
     trial_touches |-> <<>>, trial_dispenses |-> <<>>, evaluated |-> -1,
     spont_log |-> <<>>, iti_odd |-> FALSE, last_call |-> "none",
     lift_since_rest |-> FALSE, lift_in_countdown |-> FALSE,
     hw_at_cleanup |-> [taken |-> FALSE, cue |-> AllOff, solenoid |-> AllOff]]

\* session.py 35-39: Session() starts with an empty data mapping; the model's
\* data variables hold the values run gives them before its first use of them.
EmptyData ==
    /\ start_time = Unformatted(0)
    /\ end_time = Unformatted(0)
    /\ resets_timepoints = [p \in 0..1 |-> <<>>]
    /\ spont_reach_timepoints = <<>>
    /\ record = [collated |-> FALSE, nested |-> FALSE, resets_key |-> FALSE,
                 spont_reach_timepoints |-> [idx \in 0..1 |-> <<>>]]

\* session.py 35-39, 53-71: Session(data=...) with the data of a completed
\* session, as init_all_from_file builds it: formatted start and end times,
\* the 'resets_timepoints' key with a left-paw reset, collated spontaneous
\* reaches.
PrefilledData ==
    /\ start_time = Strftime(0)
    /\ end_time = Strftime(Duration)
    /\ resets_timepoints = [p \in 0..1 |-> IF p = 0 THEN <<1>> ELSE <<>>]
    /\ spont_reach_timepoints = <<>>
    /\ record = [collated |-> TRUE, nested |-> FALSE, resets_key |-> TRUE,
                 spont_reach_timepoints |->
                    [idx \in 0..1 |-> IF idx = 1 THEN <<1>> ELSE <<>>]]

\* Session.__init__ (session.py 41-47) followed by the first lines of
\* Session.run, up to the test of the 'resets_timepoints' key.
Fresh ==
    /\ shaping \in BOOLEAN
    /\ pc = "init_rpi"
    /\ stack = <<>>
    /\ sigint_handler = "default"
    /\ outcome = 0
    /\ iti_broken = FALSE
    /\ current_spout = 0
    /\ water_at_cue_onset = shaping
    /\ reward_count = 0
    /\ trial_count = 0
    /\ trial_end = 0
    /\ cue_end = 0
    /\ spont_reach_spouts = <<>>
    /\ cue_timepoints = [s \in 0..1 |-> <<>>]
    /\ touch_timepoints = [s \in 0..1 |-> <<>>]
    /\ lift_timepoints = [p \in 0..1 |-> <<>>]
    /\ gpio_ok = FALSE
    /\ cue = AllOff
    /\ solenoid = AllOff
    /\ event_detect = NoDetect
    /\ bounce = {}
    /\ now = 0
    /\ inputs = 0
    /\ cb = Idle
    /\ monitor = <<>>
    /\ monitoring = FALSE
    /\ keys = <<>>
    /\ hist = InitHist

\* A new session: Session() followed by run
Start == Fresh /\ EmptyData

\* A session started with a configuration of the documented form: one or two
\* spouts, iti = [min, max].
Init ==
    /\ backend \in Backends
    /\ spout_count \in SpoutCounts
    /\ iti = <<ItiMin, ItiMax>>
    /\ Start

\* A session started with a configuration outside that form: a spout count
\* that is neither 1 nor 2, or iti[0] > iti[1]. Session.run takes whatever
\* mapping it is given (session.py 88-89).
InvalidConfig == spout_count \notin SpoutCounts \/ iti[1] > iti[2]
InitInvalid ==
    /\ backend \in Backends
    /\ spout_count \in 0..3
    /\ iti \in {<<ItiMin, ItiMax>>, <<ItiMax, ItiMin>>}
    /\ InvalidConfig
    /\ Start

\* run called on a session pre-filled with the data of a completed one
InitPrefilled ==
    /\ backend \in Backends
    /\ spout_count \in SpoutCounts
    /\ iti = <<ItiMin, ItiMax>>
    /\ Fresh /\ PrefilledData

\* ------------------------------------------------------------ helpers
\* Program positions of the inter-trial interval (session.py 164-190)
ItiPcs == {"monitor_sensors", "set_shaping", "wait_for_rest", "iti_draw",
           "iti_countdown", "disable_sensors"}
\* The process ends when an exception ends the primary thread.
Alive == pc # "crashed"
Running == pc \notin {"done", "crashed"}
InMain == stack = <<>> /\ Running
Top == stack[Len(stack)]
InFrame(fn, at) == stack # <<>> /\ Top.fn \in fn /\ Top.pc = at
Pop == SubSeq(stack, 1, Len(stack) - 1)
Goto(at) == Append(Pop, [Top EXCEPT !.pc = at])

\* An exception that nothing catches unwinds the handler frames and
\* Session.run: the primary thread ends with a traceback.
Raise == pc' = "crashed" /\ stack' = <<>>

\* Every RPi.GPIO call on a channel raises RuntimeError once GPIO.cleanup()
\* has run; the mock backend never calls the library.
GpioRaises == Real /\ ~gpio_ok

PawPinsOf == {paw_pins[i] : i \in 1..2}
TouchPinsOf == {PyAt(touch_pins, s) : s \in Spouts}
SensorPins == PawPinsOf \cup TouchPinsOf

\* GPIO.remove_event_detect on the paw pins and on every spout's touch pin
RemoveSensors(ed) == [p \in DetectPins |-> IF p \in SensorPins THEN "none" ELSE ed[p]]

\* raspberry.py 148-162 and 177-183: the inter-trial detections
ItiDetect(ed) ==
    [p \in DetectPins |->
        IF p \in PawPinsOf THEN "reset_iti"
        ELSE IF p \in TouchPinsOf THEN "spont"
        ELSE IF p = PyAt(button_pins, 0) THEN "reverse_shaping"
        ELSE ed[p]]

\* raspberry.py 232-253: lift detection on both paws, reward detection on the
\* target's touch pin, incorrect detection on the other spout's when there is one
TrialDetect(ed, spout_number) ==
    [p \in DetectPins |->
        IF p \in PawPinsOf THEN "lift"
        ELSE IF p = PyAt(touch_pins, spout_number) THEN "reward"
        ELSE IF spout_count > 1 /\ p = PyAt(touch_pins, 1 - spout_number)
             THEN "incorrect"
        ELSE ed[p]]

\* curses.py 231-235 / 360-364: threading.Thread(target=...).start(); the new
\* listener is at the first statement of _monitor_iti or _monitor_trial
Listener(kind, spout_number) ==
    [kind |-> kind, pc |-> "flushinp", spout |-> spout_number, key |-> ""]
StartMonitor(kind, spout_number) == Append(monitor, Listener(kind, spout_number))

\* curses.ungetch(c): c is what the next getkey returns
Ungetch(c) == <<c>> \o keys

\* curses.py 221-225: wait_to_start reads keys until it has read '1'; what was
\* typed after that '1' stays in the queue
RECURSIVE AfterStartKey(_)
AfterStartKey(q) ==
    IF q = <<>> THEN <<>>
    ELSE IF Head(q) = "1" THEN Tail(q) ELSE AfterStartKey(Tail(q))

\* session.py 132 and 324: a call of _end_session
EndSessionFrame(manual) == [fn |-> "end_session", manual |-> manual, pc |-> "cleanup"]

\* ------------------------------------------------- Session.run, primary thread
\* session.py 91-93: when the key is found a message is printed and a
\* SystemError is constructed; the expression is not raised, so run goes on.
\* session.py 95-103: the data lists are created (assigned, whatever the
\* mapping held), the backend is constructed; RPiReal.__init__ sets the pins
\* up and installs self.cleanup for SIGINT.
InitRpi ==
    /\ InMain /\ pc = "init_rpi"
    /\ spont_reach_spouts' = <<>>
    /\ spont_reach_timepoints' = <<>>
    /\ resets_timepoints' = [p \in 0..1 |-> <<>>]
    /\ record' = [collated |-> FALSE, nested |-> FALSE, resets_key |-> TRUE,
                  spont_reach_timepoints |-> [idx \in 0..1 |-> <<>>]]
    /\ water_at_cue_onset' = shaping
    /\ gpio_ok' = Real
    /\ cue' = AllOff /\ solenoid' = AllOff
    /\ cue_timepoints' = [s \in 0..1 |-> <<>>]
    /\ touch_timepoints' = [s \in 0..1 |-> <<>>]
    /\ lift_timepoints' = [p \in 0..1 |-> <<>>]
    /\ sigint_handler' = "cleanup"
    /\ pc' = "wait_to_start"
    /\ UNCHANGED <<config_vars, curses_vars, stack, outcome, iti_broken, current_spout,
                   reward_count, trial_count, trial_end, cue_end, start_time,
                   end_time, event_detect, bounce, env_vars, cb, hist>>

\* session.py 104, raspberry.py 122-131 / 369-373: block until the left button
\* is pressed (GPIO.wait_for_edge); the mock backend returns at once.
WaitToStart ==
    /\ InMain /\ pc = "wait_to_start"
    /\ IF GpioRaises THEN Raise ELSE pc' = "install_handler" /\ UNCHANGED stack
    /\ keys' = IF Curses THEN AfterStartKey(keys) ELSE keys
    /\ UNCHANGED <<config_vars, monitor, monitoring, sigint_handler, session_vars,
                   data_vars, rpi_vars, gpio_vars, env_vars, cb, hist>>

\* session.py 106-115
InstallHandler ==
    /\ InMain /\ pc = "install_handler"
    /\ sigint_handler' = "end_session_manually"
    /\ start_time' = Unformatted(now)
    /\ end_time' = Unformatted(now + Duration)
    /\ trial_count' = 0
    /\ pc' = "loop_check"
    /\ UNCHANGED <<config_vars, curses_vars, stack, outcome, iti_broken, current_spout,
                   water_at_cue_onset, reward_count, trial_end, cue_end,
                   resets_timepoints, spont_reach_timepoints, spont_reach_spouts,
                   record, rpi_vars, gpio_vars, env_vars, cb, hist>>

\* A variant of LoopCheck that also starts a trial when the clock reads the
\* end time exactly
LoopCheckInclusive ==
    /\ InMain /\ pc = "loop_check"
    /\ IF end_time.fmt
       THEN Raise /\ UNCHANGED <<trial_count, outcome, current_spout>>
       ELSE IF now <= end_time.t
            THEN /\ trial_count' = trial_count + 1
                 /\ outcome' = 0
                 /\ IF SpoutDraws = {}
                    THEN Raise /\ UNCHANGED current_spout
                    ELSE /\ current_spout' \in SpoutDraws
                         /\ pc' = "monitor_sensors"
                         /\ UNCHANGED stack
            ELSE /\ pc' = "done"
                 /\ stack' = <<EndSessionFrame(FALSE)>>
                 /\ UNCHANGED <<trial_count, outcome, current_spout>>
    /\ UNCHANGED <<config_vars, curses_vars, sigint_handler, iti_broken,
                   water_at_cue_onset, reward_count, trial_end, cue_end, data_vars,
                   rpi_vars, gpio_vars, env_vars, cb, hist>>

\* session.py 117-125, 130-132: the clock is read and compared with
\* data['end_time'] (a float compared with the formatted string raises
\* TypeError); a new trial is set up (random.randint raises ValueError on an
\* empty range), or _end_session() is called.
LoopCheck ==
    /\ InMain /\ pc = "loop_check"
    /\ IF end_time.fmt
       THEN Raise /\ UNCHANGED <<trial_count, outcome, current_spout>>
       ELSE IF now < end_time.t
            THEN /\ trial_count' = trial_count + 1
                 /\ outcome' = 0
                 /\ IF SpoutDraws = {}
                    THEN Raise /\ UNCHANGED current_spout
                    ELSE /\ current_spout' \in SpoutDraws
                         /\ pc' = "monitor_sensors"
                         /\ UNCHANGED stack
            ELSE /\ pc' = "done"
                 /\ stack' = <<EndSessionFrame(FALSE)>>
                 /\ UNCHANGED <<trial_count, outcome, current_spout>>
    /\ UNCHANGED <<config_vars, curses_vars, sigint_handler, iti_broken,
                   water_at_cue_onset, reward_count, trial_end, cue_end, data_vars,
                   rpi_vars, gpio_vars, env_vars, cb, hist>>

\* session.py 164-169, raspberry.py 133-183: add_event_detect on both paw pins
\* and on every spout's touch pin, then the button callback.
MonitorSensors ==
    /\ InMain /\ pc = "monitor_sensors"
    /\ IF Real /\ (~gpio_ok \/ \E p \in SensorPins : event_detect[p] # "none")
       THEN Raise /\ UNCHANGED <<event_detect, monitor>>
       ELSE /\ event_detect' = IF Real THEN ItiDetect(event_detect) ELSE event_detect
            /\ monitor' = IF Curses THEN StartMonitor("iti", 0) ELSE monitor
            /\ pc' = "set_shaping"
            /\ UNCHANGED stack
    /\ hist' = [hist EXCEPT !.iti_odd = FALSE, !.last_call = "monitor_sensors"]
    /\ UNCHANGED <<config_vars, monitoring, keys, sigint_handler, session_vars,
                   data_vars, rpi_vars, gpio_ok, cue, solenoid, bounce, env_vars,
                   cb>>

\* session.py 170: the shaping flag of the coming trial is set to the
\* configured value
SetShaping ==
    /\ InMain /\ pc = "set_shaping"
    /\ water_at_cue_onset' = shaping
    /\ pc' = "wait_for_rest"
    /\ UNCHANGED <<config_vars, curses_vars, stack, sigint_handler, outcome, iti_broken,
                   current_spout, reward_count, trial_count, trial_end, cue_end,
                   data_vars, rpi_vars, gpio_vars, env_vars, cb, hist>>

\* session.py 173, raspberry.py 185-196 / 385-390: returns once both paw
\* sensors read high (the step is taken when the environment holds both paws
\* on their rests); the mock backend sleeps instead.
WaitForRest ==
    /\ InMain /\ pc = "wait_for_rest"
    /\ IF GpioRaises
       THEN Raise /\ UNCHANGED <<now, hist>>
       ELSE /\ now' = IF Real THEN now ELSE now + 1
            /\ hist' = [hist EXCEPT !.lift_since_rest = FALSE]
            /\ pc' = "iti_draw"
            /\ UNCHANGED stack
    /\ UNCHANGED <<config_vars, curses_vars, sigint_handler, session_vars, data_vars,
                   rpi_vars, gpio_vars, inputs, cb>>

\* A variant of ItiDraw in which the target spout is drawn again each time the
\* countdown of the interval is drawn
ItiDrawRedraws ==
    /\ InMain /\ pc = "iti_draw"
    /\ iti_broken' = FALSE
    /\ \E iti_duration \in Uniform(iti[1], iti[2]) :
          trial_end' = now + iti_duration
    /\ current_spout' \in SpoutDraws
    /\ hist' = [hist EXCEPT !.lift_in_countdown = FALSE]
    /\ pc' = "iti_countdown"
    /\ UNCHANGED <<config_vars, curses_vars, stack, sigint_handler, outcome,
                   water_at_cue_onset, reward_count, trial_count,
                   cue_end, data_vars, rpi_vars, gpio_vars, env_vars, cb>>

\* session.py 174-179
ItiDraw ==
    /\ InMain /\ pc = "iti_draw"
    /\ iti_broken' = FALSE
    /\ \E iti_duration \in Uniform(iti[1], iti[2]) :
          trial_end' = now + iti_duration
    /\ hist' = [hist EXCEPT !.lift_in_countdown = FALSE]
    /\ pc' = "iti_countdown"
    /\ UNCHANGED <<config_vars, curses_vars, stack, sigint_handler, outcome,
                   current_spout, water_at_cue_onset, reward_count, trial_count,
                   cue_end, data_vars, rpi_vars, gpio_vars, env_vars, cb>>

\* A variant of ItiCountdown that leaves the loop one poll before the deadline
ItiCountdownExitsEarly ==
    /\ InMain /\ pc = "iti_countdown"
    /\ IF now + 1 < trial_end /\ ~iti_broken
       THEN now' = now + 1 /\ UNCHANGED pc
       ELSE /\ pc' = IF iti_broken THEN "wait_for_rest" ELSE "disable_sensors"
            /\ UNCHANGED now
    /\ UNCHANGED <<config_vars, curses_vars, stack, sigint_handler, session_vars,
                   data_vars, rpi_vars, gpio_vars, inputs, cb, hist>>

\* A variant of ItiCountdown in which a broken countdown starts the interval
\* over from monitor_sensors
ItiCountdownRemonitors ==
    /\ InMain /\ pc = "iti_countdown"
    /\ IF now < trial_end /\ ~iti_broken
       THEN now' = now + 1 /\ UNCHANGED pc
       ELSE /\ pc' = IF iti_broken THEN "monitor_sensors" ELSE "disable_sensors"
            /\ UNCHANGED now
    /\ UNCHANGED <<config_vars, curses_vars, stack, sigint_handler, session_vars,
                   data_vars, rpi_vars, gpio_vars, inputs, cb, hist>>

\* session.py 181-188: one turn of the countdown loop; when the loop ends the
\* flag decides between a new wait_for_rest and the end of the interval.
ItiCountdown ==
    /\ InMain /\ pc = "iti_countdown"
    /\ IF now < trial_end /\ ~iti_broken
       THEN now' = now + 1 /\ UNCHANGED pc
       ELSE /\ pc' = IF iti_broken THEN "wait_for_rest" ELSE "disable_sensors"
            /\ UNCHANGED now
    /\ UNCHANGED <<config_vars, curses_vars, stack, sigint_handler, session_vars,
                   data_vars, rpi_vars, gpio_vars, inputs, cb, hist>>

\* session.py 190, raspberry.py 198-207: the sensors are disabled and
\* _inter_trial_interval returns (its local trial_end is gone).
DisableSensors ==
    /\ InMain /\ pc = "disable_sensors"
    /\ IF GpioRaises
       THEN Raise /\ UNCHANGED <<event_detect, trial_end, monitoring, keys>>
       ELSE /\ event_detect' = IF Real THEN RemoveSensors(event_detect) ELSE event_detect
            /\ monitoring' = IF Curses THEN FALSE ELSE monitoring
            /\ keys' = IF Curses THEN Ungetch("x") ELSE keys
            /\ trial_end' = 0
            /\ pc' = "start_trial"
            /\ UNCHANGED stack
    /\ hist' = [hist EXCEPT !.last_call = "disable_sensors"]
    /\ UNCHANGED <<config_vars, monitor, sigint_handler, outcome, iti_broken, current_spout,
                   water_at_cue_onset, reward_count, trial_count, cue_end,
                   data_vars, rpi_vars, gpio_ok, cue, solenoid, bounce, env_vars,
                   cb>>

\* session.py 242-256, raspberry.py 209-253 / 398-410, 309: the cue onset is
\* recorded (self.spouts[spout_number] raises IndexError for a spout that is
\* not in the table) before the first GPIO call; with shaping the solenoid of
\* the target is opened at once, otherwise the cue deadline is set.
StartTrial ==
    /\ InMain /\ pc = "start_trial"
    /\ cue_timepoints' =
          IF current_spout \in Spouts
          THEN [cue_timepoints EXCEPT ![current_spout] = Append(@, now)]
          ELSE cue_timepoints
    /\ hist' = [hist EXCEPT !.start_trial_calls = @ + 1,
                            !.last_call = "start_trial",
                            !.trial_touches = <<>>,
                            !.trial_dispenses =
                                IF current_spout \in Spouts /\ water_at_cue_onset
                                   /\ ~(Real /\ (~gpio_ok \/ \E p \in SensorPins :
                                                      event_detect[p] # "none"))
                                THEN <<<<"cue", current_spout>>>>
                                ELSE <<>>,
                            !.evaluated = -1]
    /\ IF \/ current_spout \notin Spouts
          \/ Real /\ (~gpio_ok \/ \E p \in SensorPins : event_detect[p] # "none")
       THEN Raise /\ UNCHANGED <<cue, event_detect, bounce, solenoid, cue_end,
                                  monitor>>
       ELSE /\ cue' = IF Real THEN [cue EXCEPT ![current_spout] = TRUE] ELSE cue
            /\ event_detect' = IF Real THEN TrialDetect(event_detect, current_spout)
                               ELSE event_detect
            /\ monitor' = IF Curses THEN StartMonitor("trial", current_spout)
                          ELSE monitor
            /\ bounce' = {}
            /\ UNCHANGED stack
            /\ IF water_at_cue_onset
               THEN /\ solenoid' = IF Real THEN [solenoid EXCEPT ![current_spout] = TRUE]
                                   ELSE solenoid
                    /\ pc' = "dispense_sleep"
                    /\ UNCHANGED cue_end
               ELSE /\ cue_end' = now + CueTicks
                    /\ pc' = "trial_poll"
                    /\ UNCHANGED solenoid
    /\ UNCHANGED <<config_vars, monitoring, keys, sigint_handler, outcome, iti_broken, current_spout,
                   water_at_cue_onset, reward_count, trial_count, trial_end,
                   data_vars, touch_timepoints, lift_timepoints, gpio_ok,
                   env_vars, cb>>

\* raspberry.py 310 / 450; RPiCurses.dispense_water (curses.py 413-431) draws
\* the water and returns without sleeping
DispenseSleep ==
    /\ InMain /\ pc = "dispense_sleep"
    /\ now' = IF Curses THEN now ELSE now + RewardTicks
    /\ pc' = "dispense_off"
    /\ UNCHANGED <<config_vars, curses_vars, stack, sigint_handler, session_vars,
                   data_vars, rpi_vars, gpio_vars, inputs, cb, hist>>

\* raspberry.py 311, session.py 255-256
DispenseOff ==
    /\ InMain /\ pc = "dispense_off"
    /\ IF GpioRaises
       THEN Raise /\ UNCHANGED <<solenoid, cue_end>>
       ELSE /\ solenoid' = IF Real THEN [solenoid EXCEPT ![current_spout] = FALSE]
                           ELSE solenoid
            /\ cue_end' = now + CueTicks
            /\ pc' = "trial_poll"
            /\ UNCHANGED stack
    /\ UNCHANGED <<config_vars, curses_vars, sigint_handler, outcome, iti_broken, current_spout,
                   water_at_cue_onset, reward_count, trial_count, trial_end,
                   data_vars, rpi_vars, gpio_ok, cue, event_detect, bounce,
                   env_vars, cb, hist>>

\* A variant of TrialPoll in which a trial whose cue deadline elapsed goes
\* straight to the evaluation of the outcome, without end_trial.
TrialPollSkipsEndTrial ==
    /\ InMain /\ pc = "trial_poll"
    /\ IF outcome = 0 /\ now < cue_end
       THEN now' = now + 1 /\ UNCHANGED pc
       ELSE pc' = (IF outcome = 0 THEN "trial_outcome" ELSE "end_trial")
            /\ UNCHANGED now
    /\ UNCHANGED <<config_vars, curses_vars, stack, sigint_handler, session_vars,
                   data_vars, rpi_vars, gpio_vars, inputs, cb, hist>>

\* session.py 258-260
TrialPoll ==
    /\ InMain /\ pc = "trial_poll"
    /\ IF outcome = 0 /\ now < cue_end
       THEN now' = now + 1 /\ UNCHANGED pc
       ELSE pc' = "end_trial" /\ UNCHANGED now
    /\ UNCHANGED <<config_vars, curses_vars, stack, sigint_handler, session_vars,
                   data_vars, rpi_vars, gpio_vars, inputs, cb, hist>>

\* A variant of EndTrial that removes the detections and leaves the cue
\* lights as they are
EndTrialKeepsCue ==
    /\ InMain /\ pc = "end_trial"
    /\ hist' = [hist EXCEPT !.end_trial_calls = @ + 1,
                            !.last_call = "end_trial"]
    /\ IF GpioRaises
       THEN Raise /\ UNCHANGED <<event_detect, monitoring, keys>>
       ELSE /\ event_detect' = IF Real THEN RemoveSensors(event_detect) ELSE event_detect
            /\ monitoring' = IF Curses THEN FALSE ELSE monitoring
            /\ keys' = IF Curses THEN Ungetch("x") ELSE keys
            /\ pc' = "trial_outcome"
            /\ UNCHANGED stack
    /\ UNCHANGED <<config_vars, monitor, sigint_handler, session_vars, data_vars,
                   rpi_vars, gpio_ok, cue, solenoid, bounce, env_vars, cb>>

\* session.py 262, raspberry.py 313-320 / 452-456: disable_sensors, then every
\* cue light is switched off.
EndTrial ==
    /\ InMain /\ pc = "end_trial"
    /\ hist' = [hist EXCEPT !.end_trial_calls = @ + 1,
                            !.last_call = "end_trial"]
    /\ IF GpioRaises
       THEN Raise /\ UNCHANGED <<event_detect, cue, monitoring, keys>>
       ELSE /\ event_detect' = IF Real THEN RemoveSensors(event_detect) ELSE event_detect
            /\ monitoring' = IF Curses THEN FALSE ELSE monitoring
            /\ keys' = IF Curses THEN Ungetch("x") ELSE keys
            /\ cue' = [s \in 0..1 |-> IF s \in Spouts THEN FALSE ELSE cue[s]]
            /\ pc' = "trial_outcome"
            /\ UNCHANGED stack
    /\ UNCHANGED <<config_vars, monitor, sigint_handler, session_vars, data_vars,
                   rpi_vars, gpio_ok, solenoid, bounce, env_vars, cb>>

\* A variant of TrialOutcome that counts every trial without an incorrect
\* grasp as rewarded, a pending outcome included
TrialOutcomeCountsPending ==
    /\ InMain /\ pc = "trial_outcome"
    /\ hist' = [hist EXCEPT !.evaluated = IF outcome = 2 THEN 2 ELSE 1]
    /\ reward_count' = IF outcome # 2 THEN reward_count + 1 ELSE reward_count
    /\ now' = now + 1
    /\ cue_end' = 0
    /\ pc' = "loop_check"
    /\ UNCHANGED <<config_vars, curses_vars, stack, sigint_handler, outcome, iti_broken,
                   current_spout, water_at_cue_onset, trial_count, trial_end,
                   data_vars, rpi_vars, gpio_vars, inputs, cb>>

\* A variant of TrialOutcome that sleeps for the reward duration after every
\* trial, a missed one included
TrialOutcomeAlwaysSleeps ==
    /\ InMain /\ pc = "trial_outcome"
    /\ hist' = [hist EXCEPT !.evaluated = outcome]
    /\ reward_count' = IF outcome = 1 THEN reward_count + 1 ELSE reward_count
    /\ now' = now + RewardTicks
    /\ cue_end' = 0
    /\ pc' = "loop_check"
    /\ UNCHANGED <<config_vars, curses_vars, stack, sigint_handler, outcome, iti_broken,
                   current_spout, water_at_cue_onset, trial_count, trial_end,
                   data_vars, rpi_vars, gpio_vars, inputs, cb>>

\* session.py 264-274: the outcome is evaluated (0, still pending, is a miss);
\* a rewarded or incorrect trial is followed by the post-trial sleep; _trial
\* returns (its local cue_end is gone).
TrialOutcome ==
    /\ InMain /\ pc = "trial_outcome"
    /\ hist' = [hist EXCEPT !.evaluated = outcome]
    /\ reward_count' = IF outcome = 1 THEN reward_count + 1 ELSE reward_count
    /\ now' = IF outcome \in {1, 2} THEN now + RewardTicks ELSE now
    /\ cue_end' = 0
    /\ pc' = "loop_check"
    /\ UNCHANGED <<config_vars, curses_vars, stack, sigint_handler, outcome, iti_broken,
                   current_spout, water_at_cue_onset, trial_count, trial_end,
                   data_vars, rpi_vars, gpio_vars, inputs, cb>>

\* ------------------------------------------ _end_session and the SIGINT handlers
\* A frame that returns: _end_session_manually returns into the interrupted
\* code, which then goes on from where it was.
Return ==
    /\ stack' = Pop
    /\ UNCHANGED pc

\* raspberry.py 335-336 / 458-461: RPiReal.cleanup closes every solenoid;
\* _RPiMock.cleanup does nothing and returns; RPiCurses.cleanup (curses.py
\* 447-456) restores the terminal and returns.
Cleanup ==
    /\ InFrame({"end_session", "cleanup"}, "cleanup")
    /\ IF GpioRaises /\ Spouts # {}
       THEN /\ Raise
            /\ hist' = [hist EXCEPT !.cleanup_calls = @ + 1,
                                    !.cleanup_raised = TRUE]
            /\ UNCHANGED solenoid
       ELSE /\ solenoid' = IF Real THEN [s \in 0..1 |-> IF s \in Spouts THEN FALSE
                                                        ELSE solenoid[s]]
                           ELSE solenoid
            /\ hist' = [hist EXCEPT
                  !.cleanup_calls = @ + 1,
                  !.cleanup_returns = IF Real THEN @ ELSE @ + 1,
                  !.hw_at_cleanup =
                      IF @.taken THEN @
                      ELSE [taken |-> TRUE, cue |-> cue, solenoid |-> solenoid]]
            /\ stack' = IF Real THEN Goto("gpio_cleanup")
                        ELSE IF Top.fn = "cleanup" THEN Pop
                        ELSE Goto("collate")
            /\ UNCHANGED pc
    /\ UNCHANGED <<config_vars, curses_vars, sigint_handler, session_vars, data_vars,
                   rpi_vars, gpio_ok, cue, event_detect, bounce, env_vars, cb>>

\* A variant of GpioCleanup in which GPIO.cleanup() forgets the channels
\* without returning them to inputs: what the outputs drive stays as it was.
GpioCleanupKeepsOutputs ==
    /\ InFrame({"end_session", "cleanup"}, "gpio_cleanup")
    /\ event_detect' = NoDetect
    /\ gpio_ok' = FALSE
    /\ hist' = [hist EXCEPT !.cleanup_returns = @ + 1]
    /\ IF Top.fn = "cleanup" THEN Return
       ELSE stack' = Goto("collate") /\ UNCHANGED pc
    /\ UNCHANGED <<config_vars, curses_vars, sigint_handler, session_vars, data_vars,
                   rpi_vars, cue, solenoid, bounce, env_vars, cb>>

\* raspberry.py 337: GPIO.cleanup() makes every channel an input again (cue
\* lights and solenoids are no longer driven), removes every event detection
\* and forgets the pin numbering mode.
GpioCleanup ==
    /\ InFrame({"end_session", "cleanup"}, "gpio_cleanup")
    /\ cue' = AllOff
    /\ solenoid' = AllOff
    /\ event_detect' = NoDetect
    /\ gpio_ok' = FALSE
    /\ hist' = [hist EXCEPT !.cleanup_returns = @ + 1]
    /\ IF Top.fn = "cleanup" THEN Return
       ELSE stack' = Goto("collate") /\ UNCHANGED pc
    /\ UNCHANGED <<config_vars, curses_vars, sigint_handler, session_vars, data_vars,
                   rpi_vars, bounce, env_vars, cb>>

\* session.py 365-370: every raw touch pin of spont_reach_spouts is replaced by
\* the index of the spout it belongs to
MapSpout(x) ==
    IF \E idx \in Spouts : x = PyAt(touch_pins, idx)
    THEN CHOOSE idx \in Spouts : x = PyAt(touch_pins, idx)
    ELSE x

\* zip(a, b): as many pairs as the shorter list has entries
ZipLen(a, b) == IF Len(a) < Len(b) THEN Len(a) ELSE Len(b)

\* session.py 372-377: the per-spout list of index idx is extended with the
\* timepoint of every zipped pair "if idx"
SpontOf(idx, spouts, timepoints) ==
    IF idx \in Spouts /\ idx # 0
    THEN SubSeq(timepoints, 1, ZipLen(spouts, timepoints))
    ELSE <<>>

\* session.py 339-392 and 340-341, 394-399: _collate_data, then the summary is
\* printed (100 * reward_count / trial_count raises ZeroDivisionError when the
\* spout table is empty) and _end_session returns. When the times are already
\* formatted strings, end_time - start_time (manual) or
\* time.localtime(start_time) raises TypeError.
\* Once collated, data['spont_reach_timepoints'] is the list of the two
\* per-spout lists (record.spont_reach_timepoints) followed by whatever a
\* callback appends to it later (spont_reach_timepoints): a second collation
\* zips the spouts with that list, and the entries it copies are the former
\* per-spout lists themselves (record.nested).
CollateData ==
    /\ InFrame({"end_session"}, "collate")
    /\ LET manual == Top.manual
           end1 == IF manual THEN Unformatted(now) ELSE end_time
           items == IF record.collated
                    THEN <<record.spont_reach_timepoints[0],
                           record.spont_reach_timepoints[1]>>
                         \o spont_reach_timepoints
                    ELSE spont_reach_timepoints
       IN IF manual /\ start_time.fmt
          THEN /\ Raise
               /\ end_time' = end1
               /\ hist' = [hist EXCEPT !.collate_calls = @ + 1]
               /\ UNCHANGED <<start_time, spont_reach_spouts,
                              spont_reach_timepoints, record>>
          ELSE /\ spont_reach_spouts' =
                     [i \in DOMAIN spont_reach_spouts |-> MapSpout(spont_reach_spouts[i])]
               /\ record' =
                     [collated |-> TRUE,
                      nested |-> record.collated,
                      resets_key |-> record.resets_key,
                      spont_reach_timepoints |->
                         [idx \in 0..1 |-> SpontOf(idx, spont_reach_spouts, items)]]
               /\ spont_reach_timepoints' = <<>>
               /\ IF start_time.fmt
                  THEN /\ Raise /\ end_time' = end1 /\ UNCHANGED start_time
                       /\ hist' = [hist EXCEPT !.collate_calls = @ + 1]
                  ELSE /\ start_time' = Strftime(start_time.t)
                       /\ end_time' = Strftime(end1.t)
                       /\ IF Spouts = {}
                          THEN /\ Raise
                               /\ hist' = [hist EXCEPT !.collate_calls = @ + 1]
                          ELSE /\ Return
                               /\ hist' = [hist EXCEPT !.collate_calls = @ + 1,
                                                       !.abort_done = @ \/ manual]
    /\ UNCHANGED <<config_vars, curses_vars, sigint_handler, session_vars,
                   resets_timepoints, rpi_vars, gpio_vars, env_vars, cb>>

\* SIGINT is delivered to the primary thread, which runs the installed handler
\* before its next statement: KeyboardInterrupt by default, RPiReal.cleanup
\* after the backend is constructed (raspberry.py 90-93; _RPiMock.cleanup takes
\* no signal arguments, so the call raises TypeError), _end_session_manually
\* once run has installed it (session.py 106-109, 309-324).
Sigint ==
    /\ inputs < MaxInputs
    /\ Alive /\ ~(pc = "done" /\ stack = <<>>)
    /\ inputs' = inputs + 1
    /\ CASE sigint_handler = "default" -> Raise
         [] sigint_handler = "cleanup" ->
               IF Real \/ Curses
               THEN /\ stack' = Append(stack, [fn |-> "cleanup", manual |-> FALSE,
                                               pc |-> "cleanup"])
                    /\ UNCHANGED pc
               ELSE Raise
         [] sigint_handler = "end_session_manually" ->
               /\ stack' = Append(stack, EndSessionFrame(TRUE))
               /\ UNCHANGED pc
    /\ UNCHANGED <<config_vars, curses_vars, sigint_handler, session_vars, data_vars, rpi_vars,
                   gpio_vars, now, cb, hist>>

\* --------------------------------------------- callbacks, on the GPIO event thread
\* An edge on a pin with an event detection makes the event thread call the
\* callback registered on it, with the pin as argument; the thread runs one
\* callback at a time. The first statement of the callback is executed with
\* the edge; the statements after it interleave with the primary thread. An
\* exception in a callback is printed by the event thread, which goes on.
\* The 1000 ms bouncetime of the trial detections lets each of them fire once
\* per registration (raspberry.py 240-253).
Edge(pin, fn) ==
    /\ Real /\ Alive /\ cb = Idle /\ inputs < MaxInputs
    /\ event_detect[pin] = fn
    /\ pin \notin bounce
    /\ bounce' = IF fn \in {"reward", "incorrect"} THEN bounce \cup {pin} ELSE bounce
    /\ inputs' = inputs + 1
    /\ UNCHANGED <<config_vars, curses_vars, main_vars, gpio_ok, event_detect, now>>

CbStep(fn, at) == Alive /\ cb.fn = fn /\ cb.pc = at
\* dispense_water keeps the spout it was called with (its parameter)
CbGoto(fn, at) ==
    cb' = [fn |-> fn, pc |-> at, spout |-> IF at = 3 THEN current_spout ELSE 0]
CbReturn == cb' = Idle

\* A variant of PawIndex that files the left paw under index 1 and the right
\* paw under index 0.
PawIndexSwapped(pin) == 1 - PyIndex(paw_pins, pin)

\* Index of the paw whose pin fired (session.py 206, raspberry.py 266)
PawIndex(pin) == PyIndex(paw_pins, pin)

\* session.py 192-207: a paw left its rest during the inter-trial interval
ResetItiCallback(pin) ==
    /\ Edge(pin, "reset_iti")
    /\ iti_broken' = TRUE
    /\ resets_timepoints' =
          [resets_timepoints EXCEPT ![PawIndex(pin)] = Append(@, now)]
    /\ hist' = [hist EXCEPT !.lift_in_countdown = @ \/ pc = "iti_countdown",
                            !.lift_since_rest =
                                @ \/ pc \in {"iti_draw", "iti_countdown",
                                             "disable_sensors"}]
    /\ UNCHANGED <<outcome, current_spout, water_at_cue_onset, reward_count,
                   trial_count, trial_end, cue_end, start_time, end_time,
                   spont_reach_timepoints, spont_reach_spouts, record, rpi_vars,
                   cue, solenoid, cb>>

\* A variant of IncreaseSpontReachesCallback that also sets the broken flag,
\* as the paw-lift callback does.
SpontReachBreaksIti(pin) ==
    /\ Edge(pin, "spont")
    /\ spont_reach_spouts' = Append(spont_reach_spouts, pin)
    /\ spont_reach_timepoints' = Append(spont_reach_timepoints, now)
    /\ hist' = [hist EXCEPT !.spont_log = Append(@, <<pin, now>>)]
    /\ iti_broken' = TRUE
    /\ UNCHANGED <<outcome, current_spout, water_at_cue_onset, reward_count,
                   trial_count, trial_end, cue_end, start_time, end_time,
                   resets_timepoints, record, rpi_vars, cue, solenoid, cb>>

\* session.py 209-222: a spout was touched during the inter-trial interval
IncreaseSpontReachesCallback(pin) ==
    /\ Edge(pin, "spont")
    /\ spont_reach_spouts' = Append(spont_reach_spouts, pin)
    /\ spont_reach_timepoints' = Append(spont_reach_timepoints, now)
    /\ hist' = [hist EXCEPT !.spont_log = Append(@, <<pin, now>>)]
    /\ UNCHANGED <<session_vars, start_time, end_time, resets_timepoints, record,
                   rpi_vars, cue, solenoid, cb>>

\* session.py 224-236: the left button was pressed
ReverseShapingCallback(pin) ==
    /\ Edge(pin, "reverse_shaping")
    /\ water_at_cue_onset' = ~water_at_cue_onset
    /\ hist' = [hist EXCEPT !.iti_odd = IF pc \in ItiPcs \cup {"start_trial"}
                                        THEN ~@ ELSE @]
    /\ UNCHANGED <<outcome, iti_broken, current_spout, reward_count, trial_count,
                   trial_end, cue_end, data_vars, rpi_vars, cue, solenoid, cb>>

\* raspberry.py 255-266: a paw left its rest during a trial
RecordLiftTimepoints(pin) ==
    /\ Edge(pin, "lift")
    /\ lift_timepoints' =
          [lift_timepoints EXCEPT ![PawIndex(pin)] = Append(@, now)]
    /\ UNCHANGED <<session_vars, data_vars, cue_timepoints, touch_timepoints,
                   cue, solenoid, cb, hist>>

\* session.py 287, raspberry.py 268-280: the target was touched during a
\* trial; its cue is switched off and the touch is recorded on the target
SuccessfulGrasp(pin) ==
    /\ Edge(pin, "reward")
    /\ cue' = [cue EXCEPT ![current_spout] = FALSE]
    /\ touch_timepoints' =
          [touch_timepoints EXCEPT ![current_spout] = Append(@, now)]
    /\ hist' = [hist EXCEPT !.trial_touches = Append(@, current_spout)]
    /\ CbGoto("reward", 2)
    /\ UNCHANGED <<session_vars, data_vars, cue_timepoints, lift_timepoints,
                   solenoid>>

\* session.py 288-293, raspberry.py 309: the outcome is set; without shaping
\* the solenoid of the target is opened
RewardCallback ==
    /\ CbStep("reward", 2)
    /\ outcome' = 1
    /\ IF water_at_cue_onset \/ GpioRaises
       THEN CbReturn /\ UNCHANGED <<solenoid, hist>>
       ELSE /\ solenoid' = [solenoid EXCEPT ![current_spout] = TRUE]
            /\ hist' = [hist EXCEPT !.trial_dispenses =
                                        Append(@, <<"reward", current_spout>>)]
            /\ CbGoto("reward", 3)
    /\ UNCHANGED <<config_vars, curses_vars, main_vars, iti_broken, current_spout,
                   water_at_cue_onset, reward_count, trial_count, trial_end,
                   cue_end, data_vars, rpi_vars, gpio_ok, cue, event_detect,
                   bounce, env_vars>>

\* raspberry.py 310-311: after the sleep the solenoid is closed
RewardDispenseOff ==
    /\ CbStep("reward", 3)
    /\ IF GpioRaises
       THEN UNCHANGED solenoid
       ELSE solenoid' = [solenoid EXCEPT ![cb.spout] = FALSE]
    /\ CbReturn
    /\ UNCHANGED <<config_vars, curses_vars, main_vars, session_vars, data_vars, rpi_vars,
                   gpio_ok, cue, event_detect, bounce, env_vars, hist>>

\* A variant of IncorrectGrasp that records the touch on the target spout
IncorrectGraspOnTarget(pin) ==
    /\ Edge(pin, "incorrect")
    /\ cue' = [cue EXCEPT ![current_spout] = FALSE]
    /\ touch_timepoints' =
          [touch_timepoints EXCEPT ![current_spout] = Append(@, now)]
    /\ hist' = [hist EXCEPT !.trial_touches = Append(@, 1 - current_spout)]
    /\ CbGoto("incorrect", 2)
    /\ UNCHANGED <<session_vars, data_vars, cue_timepoints, lift_timepoints,
                   solenoid>>

\* session.py 306, raspberry.py 282-294: the other spout was touched during a
\* trial; the cue of the target is switched off and the touch is recorded on
\* the other spout
IncorrectGrasp(pin) ==
    /\ Edge(pin, "incorrect")
    /\ cue' = [cue EXCEPT ![current_spout] = FALSE]
    /\ touch_timepoints' =
          [touch_timepoints EXCEPT ![1 - current_spout] = Append(@, now)]
    /\ hist' = [hist EXCEPT !.trial_touches = Append(@, 1 - current_spout)]
    /\ CbGoto("incorrect", 2)
    /\ UNCHANGED <<session_vars, data_vars, cue_timepoints, lift_timepoints,
                   solenoid>>

\* session.py 307
IncorrectGraspCallback ==
    /\ CbStep("incorrect", 2)
    /\ outcome' = 2
    /\ CbReturn
    /\ UNCHANGED <<config_vars, curses_vars, main_vars, iti_broken, current_spout,
                   water_at_cue_onset, reward_count, trial_count, trial_end,
                   cue_end, data_vars, rpi_vars, gpio_vars, env_vars, hist>>

\* ------------------------------------- listener threads of the curses backend
\* Keys the operator types: the two paws, the two spouts, button 1
Keys == {"v", "n", "g", "h", "1"}

\* A key is typed in the terminal
KeyPress ==
    /\ Curses /\ inputs < MaxInputs
    /\ \E k \in Keys : keys' = Append(keys, k)
    /\ inputs' = inputs + 1
    /\ UNCHANGED <<config_vars, main_vars, session_vars, data_vars, rpi_vars,
                   gpio_vars, now, cb, monitor, monitoring, hist>>

RemoveAt(seq, i) == SubSeq(seq, 1, i - 1) \o SubSeq(seq, i + 1, Len(seq))

\* Listener i is at statement at of its function
ListenerAt(i, at) == i \in DOMAIN monitor /\ monitor[i].pc = at
\* Listener i read key k while monitoring is on and is about to act on it
ListenerKey(i, kind, ks) ==
    /\ ListenerAt(i, "dispatch")
    /\ monitor[i].kind = kind
    /\ monitoring
    /\ monitor[i].key \in ks
\* Back to the top of the while loop (after time.sleep(1) where there is one)
ListenerLoop(i) == monitor' = [monitor EXCEPT ![i].pc = "getkey", ![i].key = ""]
\* The thread function returns, or an exception ends the thread
ListenerEnds(i) == monitor' = RemoveAt(monitor, i)

\* curses.py 254 / 376: curses.flushinp() throws away what is in the queue
ListenerFlushinp(i) ==
    /\ ListenerAt(i, "flushinp")
    /\ keys' = <<>>
    /\ monitor' = [monitor EXCEPT ![i].pc = "set_monitoring"]
    /\ UNCHANGED <<config_vars, main_vars, session_vars, data_vars, rpi_vars,
                   gpio_vars, env_vars, cb, monitoring, hist>>

\* curses.py 255 / 377: self._monitoring = True
ListenerSetMonitoring(i) ==
    /\ ListenerAt(i, "set_monitoring")
    /\ monitoring' = TRUE
    /\ monitor' = [monitor EXCEPT ![i].pc = "getkey"]
    /\ UNCHANGED <<config_vars, main_vars, session_vars, data_vars, rpi_vars,
                   gpio_vars, env_vars, cb, keys, hist>>

\* curses.py 258 / 380: getkey blocks until the queue holds a character
ListenerGetkey(i) ==
    /\ ListenerAt(i, "getkey")
    /\ keys # <<>>
    /\ keys' = Tail(keys)
    /\ monitor' = [monitor EXCEPT ![i].pc = "dispatch", ![i].key = Head(keys)]
    /\ UNCHANGED <<config_vars, main_vars, session_vars, data_vars, rpi_vars,
                   gpio_vars, env_vars, cb, monitoring, hist>>

\* curses.py 259-260 / 382-384: if not self._monitoring: return
ListenerReturn(i) ==
    /\ ListenerAt(i, "dispatch")
    /\ ~monitoring
    /\ ListenerEnds(i)
    /\ UNCHANGED <<config_vars, main_vars, session_vars, data_vars, rpi_vars,
                   gpio_vars, env_vars, cb, monitoring, keys, hist>>

\* A key no branch of the listener handles (curses.py 261-272 / 385-394),
\* the injected 'x' among them
ListenerIgnores(i) ==
    /\ \/ ListenerKey(i, "iti", {"x"})
       \/ ListenerKey(i, "trial", {"x", "1"})
    /\ ListenerLoop(i)
    /\ UNCHANGED <<config_vars, main_vars, session_vars, data_vars, rpi_vars,
                   gpio_vars, env_vars, cb, monitoring, keys, hist>>

\* Index of the paw of a key: 'v' is the left paw, 'n' the right one
KeyPaw(k) == IF k = "v" THEN 0 ELSE 1
\* Index of the spout of a key: 'g' is spout 0, 'h' spout 1
KeySpout(k) == IF k = "g" THEN 0 ELSE 1

\* curses.py 261-264, session.py 192-207: reset_iti(self.paw_pins[...])
ListenerResetIti(i) ==
    /\ ListenerKey(i, "iti", {"v", "n"})
    /\ iti_broken' = TRUE
    /\ resets_timepoints' =
          [resets_timepoints EXCEPT ![KeyPaw(monitor[i].key)] = Append(@, now)]
    /\ hist' = [hist EXCEPT !.lift_in_countdown = @ \/ pc = "iti_countdown",
                            !.lift_since_rest =
                                @ \/ pc \in {"iti_draw", "iti_countdown",
                                             "disable_sensors"}]
    /\ ListenerLoop(i)
    /\ UNCHANGED <<config_vars, main_vars, outcome, current_spout,
                   water_at_cue_onset, reward_count, trial_count, trial_end,
                   cue_end, start_time, end_time, spont_reach_timepoints,
                   spont_reach_spouts, record, rpi_vars, gpio_vars, env_vars,
                   cb, monitoring, keys>>

\* curses.py 265-268, session.py 209-222:
\* increase_spont_reaches(self.spouts[...]['touch']); self.spouts[1] raises
\* IndexError when there is one spout, which ends the thread
ListenerSpontReach(i) ==
    /\ ListenerKey(i, "iti", {"g", "h"})
    /\ LET idx == KeySpout(monitor[i].key)
       IN IF idx \in Spouts
          THEN /\ spont_reach_spouts' =
                     Append(spont_reach_spouts, PyAt(touch_pins, idx))
               /\ spont_reach_timepoints' = Append(spont_reach_timepoints, now)
               /\ hist' = [hist EXCEPT !.spont_log =
                                  Append(@, <<PyAt(touch_pins, idx), now>>)]
               /\ ListenerLoop(i)
          ELSE /\ ListenerEnds(i)
               /\ UNCHANGED <<spont_reach_spouts, spont_reach_timepoints, hist>>
    /\ UNCHANGED <<config_vars, main_vars, session_vars, start_time, end_time,
                   resets_timepoints, record, rpi_vars, gpio_vars, env_vars, cb,
                   monitoring, keys>>

\* curses.py 269-270, 274-288, session.py 224-236: self._button_callbacks[0]()
ListenerButton(i) ==
    /\ ListenerKey(i, "iti", {"1"})
    /\ water_at_cue_onset' = ~water_at_cue_onset
    /\ hist' = [hist EXCEPT !.iti_odd = IF pc \in ItiPcs \cup {"start_trial"}
                                        THEN ~@ ELSE @]
    /\ ListenerLoop(i)
    /\ UNCHANGED <<config_vars, main_vars, outcome, iti_broken, current_spout,
                   reward_count, trial_count, trial_end, cue_end, data_vars,
                   rpi_vars, gpio_vars, env_vars, cb, monitoring, keys>>

\* curses.py 385-388, 396-407: self._record_lift_timepoints(self.paw_pins[...])
ListenerLift(i) ==
    /\ ListenerKey(i, "trial", {"v", "n"})
    /\ lift_timepoints' =
          [lift_timepoints EXCEPT ![KeyPaw(monitor[i].key)] = Append(@, now)]
    /\ ListenerLoop(i)
    /\ UNCHANGED <<config_vars, main_vars, session_vars, data_vars,
                   cue_timepoints, touch_timepoints, gpio_vars, env_vars, cb,
                   monitoring, keys, hist>>

\* curses.py 389-391, 409-411 (successful_grasp), session.py 276-293: the key
\* of the listener's spout calls reward_func
ListenerReward(i) ==
    /\ ListenerKey(i, "trial", {"g", "h"})
    /\ KeySpout(monitor[i].key) = monitor[i].spout
    /\ IF current_spout \in Spouts
       THEN /\ touch_timepoints' =
                  [touch_timepoints EXCEPT ![current_spout] = Append(@, now)]
            /\ outcome' = 1
            /\ hist' = [hist EXCEPT
                    !.trial_touches = Append(@, current_spout),
                    !.trial_dispenses =
                        IF water_at_cue_onset THEN @
                        ELSE Append(@, <<"reward", current_spout>>)]
            /\ ListenerLoop(i)
       ELSE /\ ListenerEnds(i)
            /\ UNCHANGED <<touch_timepoints, outcome, hist>>
    /\ UNCHANGED <<config_vars, main_vars, iti_broken, current_spout,
                   water_at_cue_onset, reward_count, trial_count, trial_end,
                   cue_end, data_vars, cue_timepoints, lift_timepoints,
                   gpio_vars, env_vars, cb, monitoring, keys>>

\* curses.py 392-394, 413-423 (incorrect_grasp), session.py 295-307: the key
\* of the other spout calls incorrect_func, whatever the number of spouts;
\* self.spouts[1 - spout_number] raises IndexError when there is one spout,
\* which ends the thread before the outcome is set
ListenerIncorrect(i) ==
    /\ ListenerKey(i, "trial", {"g", "h"})
    /\ KeySpout(monitor[i].key) # monitor[i].spout
    /\ IF current_spout \in Spouts /\ (1 - current_spout) \in Spouts
       THEN /\ touch_timepoints' =
                  [touch_timepoints EXCEPT ![1 - current_spout] = Append(@, now)]
            /\ outcome' = 2
            /\ hist' = [hist EXCEPT
                    !.trial_touches = Append(@, 1 - current_spout)]
            /\ ListenerLoop(i)
       ELSE /\ ListenerEnds(i)
            /\ UNCHANGED <<touch_timepoints, outcome, hist>>
    /\ UNCHANGED <<config_vars, main_vars, iti_broken, current_spout,
                   water_at_cue_onset, reward_count, trial_count, trial_end,
                   cue_end, data_vars, cue_timepoints, lift_timepoints,
                   gpio_vars, env_vars, cb, monitoring, keys>>

ListenerStep ==
    \E i \in DOMAIN monitor :
        \/ ListenerFlushinp(i) \/ ListenerSetMonitoring(i) \/ ListenerGetkey(i)
        \/ ListenerReturn(i) \/ ListenerIgnores(i)
        \/ ListenerResetIti(i) \/ ListenerSpontReach(i) \/ ListenerButton(i)
        \/ ListenerLift(i) \/ ListenerReward(i) \/ ListenerIncorrect(i)

\* ------------------------------------------------------------ specification
Primary ==
    \/ InitRpi \/ WaitToStart \/ InstallHandler \/ LoopCheck
    \/ MonitorSensors \/ SetShaping \/ WaitForRest \/ ItiDraw \/ ItiCountdown \/ DisableSensors
    \/ StartTrial \/ DispenseSleep \/ DispenseOff
    \/ TrialPoll \/ EndTrial \/ TrialOutcome

Handler == Cleanup \/ GpioCleanup \/ CollateData

Callback ==
    \/ \E pin \in DetectPins :
          \/ ResetItiCallback(pin) \/ IncreaseSpontReachesCallback(pin)
          \/ ReverseShapingCallback(pin) \/ RecordLiftTimepoints(pin)
          \/ SuccessfulGrasp(pin) \/ IncorrectGrasp(pin)
    \/ RewardCallback \/ RewardDispenseOff \/ IncorrectGraspCallback

Next == Primary \/ Handler \/ Sigint \/ Callback

Spec == Init /\ [][Next]_vars

\* Session.run called with a configuration whose spout_count is not 1 or 2, or
\* whose iti bounds are reversed
SpecInvalid == InitInvalid /\ [][Next]_vars
SpecPrefilled == InitPrefilled /\ [][Next]_vars

\* A session on the curses backend: no GPIO library, the sensors are keys read
\* by listener threads
InitCurses ==
    /\ backend = "curses"
    /\ spout_count \in SpoutCounts
    /\ iti = <<ItiMin, ItiMax>>
    /\ Start

NextCurses ==
    \/ Primary
    \/ Cleanup \/ CollateData
    \/ Sigint
    \/ KeyPress
    \/ ListenerStep

SpecCurses == InitCurses /\ [][NextCurses]_vars

\* The same session when no key is typed and no SIGINT is sent after the start
\* key. The primary thread and the listener threads are scheduled by the
\* operating system: a thread that can take a step eventually takes one.
ListenerQuiet ==
    \E i \in DOMAIN monitor :
        \/ ListenerFlushinp(i) \/ ListenerSetMonitoring(i) \/ ListenerGetkey(i)
        \/ ListenerReturn(i) \/ ListenerIgnores(i)

NextQuiet ==
    \/ Primary
    \/ Cleanup \/ CollateData
    \/ ListenerQuiet

SpecQuiet ==
    /\ InitCurses
    /\ [][NextQuiet]_vars
    /\ WF_vars(Primary \/ Cleanup \/ CollateData)
    /\ WF_vars(ListenerQuiet)

\* A session that is left to its timed end: no SIGINT is sent. The primary
\* thread is scheduled by the operating system and is never blocked for good
\* (the start button is pressed, both paws come to rest), and so is the GPIO
\* event thread once it has begun a callback; sensor edges are up to the
\* animal and need not happen. The sensor events are those that steer the
\* sequencer: a paw lift that breaks the interval, a grasp that ends the
\* trial (both values of the shaping flag are drawn at the start).
CallbackRuns == RewardCallback \/ RewardDispenseOff \/ IncorrectGraspCallback

NextTimed ==
    \/ Primary \/ Handler
    \/ \E pin \in DetectPins :
          ResetItiCallback(pin) \/ SuccessfulGrasp(pin) \/ IncorrectGrasp(pin)
    \/ CallbackRuns

SpecTimed ==
    /\ Init
    /\ [][NextTimed]_vars
    /\ WF_vars(Primary \/ Handler)
    /\ WF_vars(CallbackRuns)

\* ------------------------------------------------------------------ claims
\* Program positions of the trial
TrialPcs == {"start_trial", "dispense_sleep", "dispense_off", "trial_poll",
             "end_trial", "trial_outcome"}
\* Positions between the return of start_trial and the call of end_trial
OpenTrialPcs == {"dispense_sleep", "dispense_off", "trial_poll", "end_trial"}
Finished == stack = <<>> /\ pc \in {"done", "crashed"}

\* C1: within a trial the outcome is assigned once: when it is Rewarded (1) or
\* Incorrect (2), the only step that changes it is the reset to Pending (0)
\* that opens the next trial.
C1_OutcomeSingleAssignment ==
    [][(outcome # 0 /\ outcome' # outcome)
          => (outcome' = 0 /\ trial_count' = trial_count + 1)]_vars

\* C2: at most one touch timepoint is appended in a trial; once _trial has
\* evaluated the outcome, a touch was appended iff the outcome is not Missed,
\* and it is on the target iff the outcome is Rewarded.
C2_OneOutcomePerTrial ==
    /\ Len(hist.trial_touches) <= 1
    /\ hist.evaluated # -1 =>
          /\ (hist.evaluated # 0) <=> (Len(hist.trial_touches) = 1)
          /\ (hist.evaluated = 1) <=> (hist.trial_touches = <<current_spout>>)

\* C3: cleanup is invoked at most once in a run, collation is never started
\* before cleanup returned, and a session that ended after the backend was
\* constructed has invoked cleanup exactly once and has collated its record.
C3_CleanupExactlyOnce ==
    /\ hist.cleanup_calls <= 1
    /\ hist.collate_calls >= 1 => hist.cleanup_returns >= 1
    /\ (Finished /\ sigint_handler # "default") =>
          (hist.cleanup_calls = 1 /\ record.collated)

\* C4: once the abort handler has run _end_session(manual=True) during the
\* inter-trial interval or the trial, the primary thread takes no further
\* sequencing step and does not crash.
C4_AbortEndsSequencing ==
    [][(hist.abort_done /\ pc \in ItiPcs \cup TrialPcs)
          => /\ ~(LoopCheck \/ MonitorSensors \/ WaitForRest \/ DisableSensors
                  \/ StartTrial \/ DispenseOff \/ EndTrial)
             /\ pc' # "crashed"]_vars

\* C5: in every state after cleanup has returned, every cue light and every
\* solenoid is off, whatever they were when cleanup was called.
C5_ActuatorsOffAfterCleanup ==
    hist.cleanup_returns >= 1 => (cue = AllOff /\ solenoid = AllOff)

\* cleanup was called with a cue light on and a solenoid open, and returned
C5_Witness ==
    /\ hist.cleanup_returns >= 1
    /\ \E s \in 0..1 : hist.hw_at_cleanup.cue[s] /\ hist.hw_at_cleanup.solenoid[s]

\* C6: a second call of cleanup succeeds like the first one: no call of
\* cleanup raises, and after it the actuators are in the same (off) state.
C6_CleanupIdempotent ==
    /\ ~hist.cleanup_raised
    /\ hist.cleanup_returns >= 2 => (cue = AllOff /\ solenoid = AllOff)

\* C7: end_trial is called exactly once per trial: while a trial is open
\* (start_trial has returned, end_trial is not yet called) start_trial has
\* been called once more than end_trial, and everywhere else in Session.run,
\* the end of the session included, as often. A run that an uncaught
\* exception has ended is not constrained.
C7_EndTrialOncePerTrial ==
    /\ pc \in OpenTrialPcs =>
          hist.start_trial_calls = hist.end_trial_calls + 1
    /\ pc \in ({"init_rpi", "wait_to_start", "install_handler", "loop_check",
                "start_trial", "trial_outcome", "done"} \cup ItiPcs) =>
          hist.start_trial_calls = hist.end_trial_calls

\* a second trial ended by an incorrect grasp has had its end_trial
C7_Witness ==
    /\ pc = "loop_check"
    /\ hist.evaluated = 2
    /\ hist.start_trial_calls = 2 /\ hist.end_trial_calls = 2

\* C8: when the inter-trial interval ends (disable_sensors has been called
\* and the trial is about to start), no paw-lift callback has been invoked
\* since the last wait_for_rest returned.
C8_ItiExitsUnbroken ==
    pc = "start_trial" => ~hist.lift_since_rest

\* C9: a paw lift during the countdown appends exactly one entry to
\* resets_timepoints, at index 0 for the left paw (pin 17) and 1 for the right
\* paw (pin 18); from then on the countdown can only be left for
\* wait_for_rest, and the interval does not end before a new countdown has
\* been drawn.
C9_LiftRestartsCountdown ==
    [][/\ \A pin \in PawPinsOf :
            ResetItiCallback(pin) =>
               LET paw == IF pin = 17 THEN 0 ELSE 1
               IN /\ resets_timepoints'[paw] = Append(resets_timepoints[paw], now)
                  /\ resets_timepoints'[1 - paw] = resets_timepoints[1 - paw]
                  /\ pc = "iti_countdown" => iti_broken'
       /\ (hist.lift_in_countdown /\ pc = "iti_countdown") =>
            pc' \in {"iti_countdown", "wait_for_rest", "crashed"}
       /\ pc' \in {"disable_sensors", "start_trial"} => ~hist'.lift_in_countdown
      ]_vars

\* the right paw was lifted during a countdown and the sequencer is back at
\* wait_for_rest
C9_Witness ==
    /\ hist.lift_in_countdown
    /\ pc = "wait_for_rest"
    /\ resets_timepoints[1] # <<>>

\* C10: the spontaneous-reach callback appends the touched pin and the time,
\* one entry each, and leaves the broken flag, the countdown deadline,
\* resets_timepoints, the outcome and both shaping flags as they are.
C10_SpontReachFrame ==
    [][\A pin \in DetectPins :
          IncreaseSpontReachesCallback(pin) =>
             /\ pin \in TouchPinsOf
             /\ spont_reach_spouts' = Append(spont_reach_spouts, pin)
             /\ spont_reach_timepoints' = Append(spont_reach_timepoints, now)
             /\ UNCHANGED <<iti_broken, trial_end, resets_timepoints, outcome,
                            water_at_cue_onset, shaping>>]_vars

\* a spout was touched during a countdown, which goes on unbroken
C10_Witness ==
    /\ pc = "iti_countdown"
    /\ spont_reach_spouts # <<>>
    /\ ~iti_broken

\* ------------------------------------------------------------ collation
\* The timepoints of the spontaneous reaches logged on spout i, in order
LoggedReaches(i) ==
    LET OnSpout(e) == e[1] = PyAt(touch_pins, i)
        sel == SelectSeq(hist.spont_log, OnSpout)
    IN [k \in 1..Len(sel) |-> sel[k][2]]

\* C11: once the record is collated, the list of spontaneous reaches of
\* spout i holds exactly the timepoints of the reaches logged on spout i, in
\* the order they were logged
C11_SpontReachesPerSpout ==
    (record.collated /\ ~record.nested /\ spont_reach_timepoints = <<>>)
        => \A i \in Spouts : record.spont_reach_timepoints[i] = LoggedReaches(i)

\* ------------------------------------------------------------ configuration
\* C12: with spout_count outside {1, 2} or iti[0] > iti[1], Session.run raises
\* before the backend is constructed: it never gets past its first lines, no
\* SIGINT handler is installed, no pin is set up, no trial is started
C12_InvalidConfigFailsFast ==
    InvalidConfig =>
        /\ pc \in {"init_rpi", "crashed"}
        /\ sigint_handler = "default"
        /\ ~gpio_ok
        /\ hist.start_trial_calls = 0

\* ------------------------------------------------------------ target spout
\* C13: the target spout is drawn once per trial, in the step of Session.run
\* that opens the trial (before the inter-trial interval and its
\* monitor_sensors), its value is in 0..spout_count-1, and no other step
\* changes it: it stays the same through the interval, however often the
\* interval is broken, through the trial, end_trial and the evaluation
C13_TargetDrawnOncePerTrial ==
    [][/\ (current_spout' # current_spout)
              => /\ pc = "loop_check" /\ pc' = "monitor_sensors"
                 /\ stack = <<>>
                 /\ trial_count' = trial_count + 1
       /\ (trial_count' # trial_count)
              => /\ pc = "loop_check" /\ pc' = "monitor_sensors"
                 /\ trial_count' = trial_count + 1
                 /\ current_spout' \in 0..(spout_count - 1)
       /\ (pc \in ItiPcs \cup TrialPcs /\ stack = <<>>)
              => current_spout \in 0..(spout_count - 1)]_vars

\* A trial on spout 1 whose interval was broken by a paw lift has reached the
\* evaluation of its outcome
C13_Witness ==
    /\ pc = "trial_outcome" /\ stack = <<>>
    /\ trial_count = 1
    /\ current_spout = 1
    /\ Len(resets_timepoints[0]) + Len(resets_timepoints[1]) > 0

\* ------------------------------------------------------------ water
\* C14: in a trial water is dispensed at most once and only from the target
\* spout; a trial evaluated as rewarded had exactly one dispense; a trial
\* evaluated as missed or incorrect had no dispense by the reward callback
C14_OneDispensePerTrial ==
    /\ Len(hist.trial_dispenses) <= 1
    /\ \A k \in DOMAIN hist.trial_dispenses :
           hist.trial_dispenses[k][2] = current_spout
    /\ hist.evaluated = 1 => Len(hist.trial_dispenses) = 1
    /\ hist.evaluated \in {0, 2} =>
           \A k \in DOMAIN hist.trial_dispenses :
               hist.trial_dispenses[k][1] # "reward"

\* ------------------------------------------------------------ shaping
\* C15: the configured shaping value is never modified, and the trial that
\* follows an inter-trial interval gives water at cue onset exactly when the
\* configured value, inverted if the button was pressed an odd number of times
\* during that interval, says so
C15_ButtonTogglesNextTrialOnly ==
    [][/\ shaping' = shaping
       /\ (hist'.start_trial_calls = hist.start_trial_calls + 1)
              => (water_at_cue_onset = (shaping # hist.iti_odd))]_vars

C17_IncorrectGraspOnOtherSpout ==
    [][/\ (cb.fn # "incorrect" /\ cb'.fn = "incorrect")
              => /\ spout_count = 2
                 /\ bounce' = bounce \cup {PyAt(touch_pins, 1 - current_spout)}
                 /\ touch_timepoints'[1 - current_spout] =
                        Append(touch_timepoints[1 - current_spout], now)
                 /\ touch_timepoints'[current_spout] =
                        touch_timepoints[current_spout]
                 /\ UNCHANGED <<reward_count, solenoid, current_spout>>
                 /\ hist'.trial_dispenses = hist.trial_dispenses
       /\ (cb.fn = "incorrect" /\ cb'.fn # "incorrect")
              => /\ outcome' = 2
                 /\ UNCHANGED <<reward_count, solenoid, touch_timepoints,
                                current_spout>>
                 /\ hist'.trial_dispenses = hist.trial_dispenses]_vars

\* The incorrect-grasp callback has run to its end in a trial that is still
\* polling: the touch is on the other spout's list, the target's is empty
C17_Witness ==
    /\ pc = "trial_poll" /\ stack = <<>>
    /\ spout_count = 2
    /\ cb = Idle
    /\ outcome = 2
    /\ hist.trial_touches = <<1 - current_spout>>
    /\ touch_timepoints[1 - current_spout] # <<>>
    /\ touch_timepoints[current_spout] = <<>>
    /\ reward_count = 0
    /\ solenoid = AllOff

\* ------------------------------------------------------------ solenoids
\* C18: in every reachable state at most one spout's solenoid is open
C18_OneSolenoidOpen ==
    Cardinality({s \in 0..1 : solenoid[s]}) <= 1

\* ------------------------------------------------------------ manual abort
\* C19: when the record is collated by a manual abort, end_trial has been
\* called for every trial that was started, and a trial whose outcome had
\* latched as rewarded has been counted in the reward count
C19_AbortFinalizesTrial ==
    [][(/\ stack # <<>>
        /\ Top.manual
        /\ hist'.collate_calls = hist.collate_calls + 1)
           => /\ hist.end_trial_calls = hist.start_trial_calls
              /\ (outcome = 1 => hist.evaluated = 1)]_vars

\* ------------------------------------------------------------ finalization
\* C20: the record is collated once, and once it is collated no step appends
\* to or rewrites the cue, touch, lift, reset and spontaneous-reach timepoints
\* or the start and end times
C20_RecordFinalizedOnce ==
    [][record.collated
           => /\ UNCHANGED <<cue_timepoints, touch_timepoints, lift_timepoints,
                             resets_timepoints, spont_reach_timepoints, record,
                             start_time, end_time>>
              /\ hist'.collate_calls = hist.collate_calls]_vars

\* ------------------------------------------------------------ listener threads
\* C21: on the curses backend at most one listener thread is alive in every
\* reachable state: the listener of a monitoring phase has returned before
\* the listener of the next phase is started
C21_OneListenerAlive ==
    Len(monitor) <= 1

\* C22: on the curses backend, in a session that runs to its timed end without
\* any further key, every monitoring phase was stopped by disable_sensors or
\* end_trial (stop flag, injected key), and every listener thread eventually
\* returns: once the session has ended no listener stays blocked
C22_StoppedListenersReturn ==
    (pc = "done" /\ stack = <<>>) ~> (monitor = <<>>)

\* ------------------------------------------------------------ late events
\* C23: a statement of a reward or incorrect callback that runs after
\* end_trial of its trial changes no actuator, not the reward count, not the
\* broken flag, and, once the next trial iteration has begun, not the outcome
C23_LateCallbackIgnored ==
    [][(/\ cb.fn \in {"reward", "incorrect"}
        /\ cb' # cb
        /\ hist.start_trial_calls > 0
        /\ hist.end_trial_calls = hist.start_trial_calls)
           => /\ UNCHANGED <<reward_count, iti_broken, cue, solenoid>>
              /\ (pc \in ItiPcs \cup {"start_trial"} => outcome' = outcome)]_vars

\* session.py 399-402: the summary's trial count is the length of the collated
\* cue_timepoints, a list with one entry (itself a list) per spout; the missed
\* count is that length less the reward count.
SummaryTrialCount == Cardinality(Spouts)
SummaryMissCount == SummaryTrialCount - reward_count

\* The step of _end_session that collates the record without raising and
\* goes on to print the summary.
SummaryPrinted ==
    /\ hist'.collate_calls = hist.collate_calls + 1
    /\ record'.collated
    /\ ~start_time.fmt /\ start_time'.fmt
    /\ Spouts # {}

\* C24: the trial count printed in the summary equals the number of trials
\* run, i.e. the number of start_trial calls of the session.
C24_SummaryCountsTrials ==
    [][SummaryPrinted => SummaryTrialCount = hist.start_trial_calls]_vars

\* session.py 361-362, 379-380: the cue and touch timepoints of the record
\* are rebuilt with one list per spout of the backend; 384: the cued lift
\* timepoints are the backend's list of two lists.
CollatedCueTimepoints == [idx \in Spouts |-> cue_timepoints[idx]]
CollatedTouchTimepoints == [idx \in Spouts |-> touch_timepoints[idx]]
CollatedLiftTimepoints == lift_timepoints

\* C25: once the record is collated its spout-indexed collections have
\* spout_count entries each, and its paw-indexed collections have two.
C25_CollectionLengths ==
    record.collated =>
        /\ Cardinality(DOMAIN CollatedCueTimepoints) = spout_count
        /\ Cardinality(DOMAIN CollatedTouchTimepoints) = spout_count
        /\ Cardinality(DOMAIN record.spont_reach_timepoints) = spout_count
        /\ Cardinality(DOMAIN resets_timepoints) = 2
        /\ Cardinality(DOMAIN CollatedLiftTimepoints) = 2

\* C26: the step that evaluates a trial adds 1 to the reward count when
\* successful_grasp recorded a touch on the target in that trial and 0
\* otherwise; with one spout, where every recorded touch is a successful
\* grasp, the reward count at the trial boundary is the number of recorded
\* touches; and a touch is never recorded before the cue onset of its trial.
C26_RewardCountMatchesGrasps ==
    [][/\ (pc = "trial_outcome" /\ pc' = "loop_check")
             => /\ reward_count' - reward_count =
                      (IF \E k \in DOMAIN hist.trial_touches :
                              hist.trial_touches[k] = current_spout
                       THEN 1 ELSE 0)
                /\ (spout_count = 1 => reward_count' = Len(touch_timepoints[0]))
       /\ \A s \in Spouts :
             touch_timepoints'[s] # touch_timepoints[s]
                => /\ cue_timepoints[current_spout] # <<>>
                   /\ now >= cue_timepoints[current_spout]
                                [Len(cue_timepoints[current_spout])]]_vars

\* raspberry.py 229 / curses.py 323: start_trial appends the cue onset to the
\* cue timepoints of the target spout, so the onset of the open trial is the
\* last of them.
CueOnset == cue_timepoints[current_spout][Len(cue_timepoints[current_spout])]

\* C27: when end_trial closes a trial, less than one poll more than the cue
\* duration has passed since the cue onset, with and without shaping.
C27_TrialOpenOneCueWindow ==
    [][(pc = "end_trial" /\ pc' = "trial_outcome")
          => now - CueOnset < CueTicks + 1]_vars

\* C28: the step of _trial that follows end_trial advances the clock by the
\* reward duration when it evaluates the trial as rewarded or incorrect and
\* not at all when it evaluates it as missed, and hands over to the loop's
\* next reading of the clock.
C28_PostTrialDelay ==
    [][(pc = "trial_outcome" /\ hist'.evaluated # hist.evaluated)
          => /\ pc' = "loop_check"
             /\ now' - now = (IF hist'.evaluated \in {1, 2} THEN RewardTicks
                              ELSE 0)]_vars

\* a rewarded trial has been evaluated and its delay has passed
C28_Witness ==
    /\ InMain /\ pc = "loop_check"
    /\ hist.evaluated = 1
    /\ reward_count = 1
    /\ solenoid = AllOff

\* C29: each countdown of the inter-trial interval is drawn anew between
\* iti[0] and iti[1] from the clock reading that precedes it, the draw has a
\* single possible value when the two ends of the interval are equal, and a
\* countdown that ends unbroken ends not before its deadline and less than
\* one poll after it.
C29_ItiCountdownDuration ==
    [][/\ (pc = "iti_draw" /\ pc' = "iti_countdown")
             => /\ trial_end' - now \in iti[1]..iti[2]
                /\ \A a \in iti[1]..iti[2] : Uniform(a, a) = {a}
       /\ (pc = "iti_countdown" /\ pc' = "disable_sensors")
             => /\ ~iti_broken
                /\ trial_end <= now
                /\ now < trial_end + 1]_vars

\* in an interval with one paw lift, the countdown drawn last has ended
\* unbroken at its deadline
C29_Witness ==
    /\ InMain /\ pc = "disable_sensors"
    /\ ~iti_broken
    /\ now = trial_end
    /\ Len(resets_timepoints[0]) + Len(resets_timepoints[1]) = 1

\* C30: over the whole session the sensor calls follow one another in the
\* order monitor_sensors, disable_sensors, start_trial, end_trial,
\* monitor_sensors, ...: each is called only directly after its predecessor
\* in that cycle, so an interval has one monitor_sensors and one
\* disable_sensors however often its countdown is broken; and a detection is
\* added to a sensor pin only when the pin has none.
C30_SensorCallsAlternate ==
    [][LET before == [monitor_sensors |-> {"none", "end_trial"},
                      disable_sensors |-> {"monitor_sensors"},
                      start_trial |-> {"disable_sensors"},
                      end_trial |-> {"start_trial"}]
       IN /\ (pc \in DOMAIN before /\ pc' # pc /\ stack = <<>>)
                => /\ hist.last_call \in before[pc]
                   /\ hist'.last_call = pc
          /\ (hist'.last_call # hist.last_call)
                => (pc \in DOMAIN before /\ stack = <<>>)
          /\ (event_detect' # event_detect)
                => \A p \in SensorPins :
                      (event_detect'[p] # event_detect[p]
                       /\ event_detect'[p] # "none")
                         => event_detect[p] = "none"]_vars

\* in a session with a paw lift, the second interval has armed the sensors
\* again after the first trial was ended
C30_Witness ==
    /\ Real /\ InMain /\ pc = "wait_for_rest"
    /\ hist.last_call = "monitor_sensors"
    /\ hist.end_trial_calls = 1
    /\ Len(resets_timepoints[0]) + Len(resets_timepoints[1]) > 0
    /\ \A p \in SensorPins : event_detect[p] # "none"

\* C31: run on a session whose data already holds the 'resets_timepoints'
\* key cancels: no backend is constructed (the SIGINT handler stays the
\* default one, no pin is set up), no trial is started, and the reset and
\* spontaneous-reach timepoints the session came with stay as they were.
C31_PrefilledRunCancels ==
    /\ sigint_handler = "default" /\ ~gpio_ok
    /\ hist.start_trial_calls = 0
    /\ resets_timepoints = [p \in 0..1 |-> IF p = 0 THEN <<1>> ELSE <<>>]
    /\ record.collated
    /\ record.spont_reach_timepoints =
          [idx \in 0..1 |-> IF idx = 1 THEN <<1>> ELSE <<>>]

\* C32: at most one cue light is on; a cue light that is on is the one of the
\* target spout and the sequencer is between the return of start_trial and
\* the return of end_trial of a trial; so no cue light is on before the
\* start signal, during an inter-trial interval or once the session has ended.
C32_CueLightInvariant ==
    /\ Cardinality({s \in 0..1 : cue[s]}) <= 1
    /\ \A s \in 0..1 :
          cue[s] => /\ s = current_spout
                    /\ pc \in OpenTrialPcs
                    /\ hist.start_trial_calls = hist.end_trial_calls + 1

\* the cue of spout 1 is lit while the second trial of a session is polled
C32_Witness ==
    /\ cue[1] /\ ~cue[0]
    /\ pc = "trial_poll" /\ stack = <<>>
    /\ hist.start_trial_calls = 2

\* C33: with one spout no trial ever gets the outcome Incorrect, the
\* incorrect callback is never invoked, and no key read by a listener makes it
\* index a spout other than spout 0.
C33_OneSpoutOnlySpoutZero ==
    [][spout_count = 1 =>
          /\ outcome' # 2
          /\ \A i \in DOMAIN monitor :
                /\ ~ListenerIncorrect(i)
                /\ ListenerSpontReach(i) => KeySpout(monitor[i].key) = 0]_vars

\* C34: the trial counter advances (a new iteration begins) only at a loop
\* check whose clock reading is before the end time; the sequencer leaves the
\* loop only at a loop check whose reading is not, so a trial that is open
\* when the end time passes is ended and evaluated first; and a session left
\* to its timed end eventually is at SessionEnd with cleanup called once and
\* the record collated.
C34_TimedTermination ==
    /\ [][(trial_count' = trial_count + 1)
             => (pc = "loop_check" /\ now < end_time.t)]_vars
    /\ [][(pc' = "done" /\ pc # "done")
             => /\ pc = "loop_check" /\ now >= end_time.t
                /\ hist.end_trial_calls = hist.start_trial_calls
                /\ (hist.start_trial_calls > 0 => hist.evaluated # -1)]_vars
    /\ <>(/\ pc = "done" /\ stack = <<>>
          /\ hist.cleanup_calls = 1
          /\ record.collated)

\* a session of two trials has ended on time, cleaned up and collated
C34_Witness ==
    /\ pc = "done" /\ stack = <<>>
    /\ now >= Duration
    /\ hist.cleanup_calls = 1 /\ hist.collate_calls = 1
    /\ record.collated
    /\ hist.end_trial_calls = 2

\* session.py 444-450: the per-spout lists of the record are concatenated in
\* spout order
RECURSIVE Extend(_, _)
Extend(lists, n) ==
    IF n = 0 THEN <<>> ELSE Extend(lists, n - 1) \o lists[n - 1]
FlatTouchTimepoints == Extend(CollatedTouchTimepoints, Cardinality(Spouts))
FlatCueTimepoints == Extend(CollatedCueTimepoints, Cardinality(Spouts))

\* session.py 452: map(operator.sub, touch_timepoints, cue_timepoints) pairs
\* the two flat lists by position and stops at the end of the shorter one
ReactionTimes ==
    [k \in 1..ZipLen(FlatTouchTimepoints, FlatCueTimepoints) |->
        FlatTouchTimepoints[k] - FlatCueTimepoints[k]]

\* The cue onset of the trial in which a touch was recorded: trials do not
\* overlap, so it is the latest cue onset that is not after the touch.
TrialCueOnset(t) ==
    LET onsets == {FlatCueTimepoints[k] : k \in DOMAIN FlatCueTimepoints}
    IN CHOOSE c \in onsets : c <= t /\ \A d \in onsets : d <= t => d <= c

\* C35: once the record is collated, reaction_times has one entry per recorded
\* touch, and each entry is the touch timepoint less the cue onset of the
\* trial in which the touch was made.
C35_ReactionTimesPerTrial ==
    record.collated =>
        /\ Len(ReactionTimes) = Len(FlatTouchTimepoints)
        /\ \A k \in DOMAIN ReactionTimes :
              ReactionTimes[k] =
                 FlatTouchTimepoints[k] - TrialCueOnset(FlatTouchTimepoints[k])

====
